---- MODULE Spec2Model ----
(***************************************************************************)
(* Model of the Google Cloud sample snippets (Model Armor, Parameter       *)
(* Manager, Compute consistency groups) and of modelarmor_test.go.         *)
(*                                                                         *)
(* Strings are TLA+ strings; fmt.Sprintf is concatenation (\o).  The       *)
(* remote services and the generated client libraries are the environment: *)
(* every client construction, remote request, operation poll and page      *)
(* fetch answers nondeterministically with success or with an error.       *)
(***************************************************************************)
EXTENDS Naturals, Sequences, FiniteSets, TLC

(***************************************************************************)
(* Bounds of the model.                                                    *)
(***************************************************************************)
MaxPages == 2      \* pages the remote ListTemplates serves per iteration
MaxPageLen == 2    \* templates per page
MaxPolls == 2      \* polls op.Wait makes before the operation is done

Procs == {1, 2}    \* invocations that may run side by side

(***************************************************************************)
(* Inputs and remote answers.                                              *)
(***************************************************************************)
ProjectIDs == {"p1", "p2"}
LocationIDs == {"us"}
TemplateIDs == {"t1"}
FolderIDs == {"f1", "f2"}
LabelSets == {"k=v"}

\* The arguments of one invocation; each sample reads the fields it declares.
ArgSets == [projectID : ProjectIDs, locationID : LocationIDs, location : LocationIDs,
            templateID : TemplateIDs, parameterID : {"q1"}, folderID : FolderIDs,
            region : {"eu"}, groupName : {"g1"}, diskName : {"d1"},
            organizationID : {"o1"}, labels : LabelSets, userPrompt : {"hi"}, modelResponse : {"ok"},
            pdfContentBase64 : {"JVBERi0="}]

\* The arguments that name the same location twice agree (one caller value).
Args == {a \in ArgSets : a.location = a.locationID}

\* Resource names the remote puts in a response.
RemoteNames == {"r1", "r2"}

\* Errors: nil is a record too, so that errors compare with =.
NilErr == [nil |-> TRUE, msg |-> "", unwrap |-> "", grpc |-> FALSE, code |-> "OK"]

MkErr(m, isStatus, c) ==
    [nil |-> FALSE, msg |-> m, unwrap |-> "", grpc |-> isStatus, code |-> c]

\* What the client libraries may hand back on failure.
ErrUnavailable == MkErr("rpc error: code = Unavailable", TRUE, "Unavailable")
ErrNotFound == MkErr("rpc error: code = NotFound", TRUE, "NotFound")
ErrPlain == MkErr("dial tcp: i/o timeout", FALSE, "Unknown")
RemoteErrs == {ErrUnavailable, ErrNotFound, ErrPlain}
SampleErrs == {ErrUnavailable, ErrPlain}

\* Values: a nil pointer / nil slice, a response message, a slice.
NilVal == [nil |-> TRUE, Name |-> "", items |-> <<>>]
Msg(n) == [nil |-> FALSE, Name |-> n, items |-> <<>>]
Slice(s) == [nil |-> s = <<>>, Name |-> "", items |-> s]

(***************************************************************************)
(* fmt and strings.                                                        *)
(***************************************************************************)
\* strings.Contains(s, sub)
Contains(s, sub) ==
    \/ Len(sub) = 0
    \/ /\ Len(sub) <= Len(s)
       /\ \E i \in 1..(Len(s) - Len(sub) + 1) : SubSeq(s, i, i + Len(sub) - 1) = sub

\* Join as a bug would have it: the separator is left out.
RECURSIVE Join_NoSep(_, _)
Join_NoSep(elems, sep) ==
    IF elems = <<>> THEN ""
    ELSE elems[1] \o Join_NoSep(Tail(elems), sep)

\* strings.Join(elems, sep)
RECURSIVE Join(_, _)
Join(elems, sep) ==
    IF elems = <<>> THEN ""
    ELSE IF Len(elems) = 1 THEN elems[1]
    ELSE elems[1] \o sep \o Join(Tail(elems), sep)

\* Errorf as a bug would have it: the cause is left out of the message.
Errorf_NoCause(desc, verb, cause) ==
    [nil |-> FALSE, msg |-> desc, unwrap |-> "", grpc |-> FALSE, code |-> "Unknown"]

\* fmt.Errorf("<desc>: %w", err) and fmt.Errorf("<desc>: %v", err): the
\* message is the description, ": " and the cause's text; only %w keeps the
\* cause reachable through errors.Unwrap.
Errorf(desc, verb, cause) ==
    [nil |-> FALSE,
     msg |-> desc \o ": " \o cause.msg,
     unwrap |-> IF verb = "%w" THEN cause.msg ELSE "",
     grpc |-> IF verb = "%w" THEN cause.grpc ELSE FALSE,
     code |-> IF verb = "%w" THEN cause.code ELSE "Unknown"]

\* %v of a response message (its text form shows the fields it carries).
FormatV(response) == "name:\"" \o response.Name \o "\""

\* option.WithEndpoint(fmt.Sprintf("modelarmor.%s.rep.googleapis.com:443", l))
Endpoint(locationID) == "modelarmor." \o locationID \o ".rep.googleapis.com:443"

(***************************************************************************)
(* The sample functions.  Each is a record of what its body fixes: the     *)
(* client constructor, the error descriptions and verbs, the remote        *)
(* method, the shape of the call (unary, long-running operation, paged     *)
(* listing), the sink of the confirmation and whether Close is deferred.   *)
(* The request and the confirmation text are the operators that follow     *)
(* each record.                                                            *)
(***************************************************************************)
createParam ==
    [name |-> "createParam", newClient |-> "parametermanager.NewClient",
     endpoint |-> FALSE,
     clientDesc |-> "failed to create Parameter Manager client", clientVerb |-> "%w",
     rpc |-> "CreateParameter", rpcDesc |-> "failed to create parameter", rpcVerb |-> "%w",
     kind |-> "unary", sink |-> "w", hasVal |-> FALSE, deferClose |-> TRUE]

createParamReq(a) ==
    [Parent |-> "projects/" \o a.projectID \o "/locations/global",
     ParameterId |-> a.parameterID,
     \* &parametermanagerpb.Parameter{}: every field at its zero value
     Parameter |-> [Format |-> "PARAMETER_FORMAT_UNSPECIFIED"]]

createParamOut(a, response) == "Created parameter: " \o response.Name \o "\n"

\* The filters both create samples configure.
RaiFiltersCreate ==
    << [FilterType |-> "HATE_SPEECH", ConfidenceLevel |-> "HIGH"],
       [FilterType |-> "SEXUALLY_EXPLICIT", ConfidenceLevel |-> "MEDIUM_AND_ABOVE"] >>

createModelArmorTemplateWithLabels ==
    [name |-> "createModelArmorTemplateWithLabels", newClient |-> "modelarmor.NewClient",
     endpoint |-> TRUE,
     clientDesc |-> "failed to create client", clientVerb |-> "%v",
     rpc |-> "CreateTemplate", rpcDesc |-> "failed to create template", rpcVerb |-> "%v",
     kind |-> "unary", sink |-> "stdout", hasVal |-> TRUE, deferClose |-> TRUE]

createModelArmorTemplateWithLabelsReq(a) ==
    [Parent |-> "projects/" \o a.projectID \o "/locations/" \o a.locationID,
     TemplateId |-> a.templateID,
     Template |-> [FilterConfig |-> [RaiSettings |-> [RaiFilters |-> RaiFiltersCreate]],
                   Labels |-> a.labels]]

createModelArmorTemplateWithLabelsOut(a, response) ==
    "Created template: " \o response.Name \o "\n"

\* addDiskConsistencyGroup without its `defer disksClient.Close()`.
addDiskConsistencyGroup_NoDefer ==
    [name |-> "addDiskConsistencyGroup", newClient |-> "compute.NewRegionDisksRESTClient",
     endpoint |-> FALSE,
     clientDesc |-> "NewResourcePoliciesRESTClient", clientVerb |-> "%w",
     rpc |-> "AddResourcePolicies", rpcDesc |-> "unable to add disk", rpcVerb |-> "%w",
     waitDesc |-> "unable to wait for the operation", waitVerb |-> "%w",
     kind |-> "lro", sink |-> "w", hasVal |-> FALSE, deferClose |-> FALSE]

addDiskConsistencyGroup ==
    [name |-> "addDiskConsistencyGroup", newClient |-> "compute.NewRegionDisksRESTClient",
     endpoint |-> FALSE,
     clientDesc |-> "NewResourcePoliciesRESTClient", clientVerb |-> "%w",
     rpc |-> "AddResourcePolicies", rpcDesc |-> "unable to add disk", rpcVerb |-> "%w",
     waitDesc |-> "unable to wait for the operation", waitVerb |-> "%w",
     kind |-> "lro", sink |-> "w", hasVal |-> FALSE, deferClose |-> TRUE]

addDiskConsistencyGroupReq(a) ==
    [Project |-> a.projectID,
     Disk |-> a.diskName,
     RegionDisksAddResourcePoliciesRequestResource |->
         [ResourcePolicies |->
             << "projects/" \o a.projectID \o "/regions/" \o a.region
                \o "/resourcePolicies/" \o a.groupName >>],
     Region |-> a.region]

addDiskConsistencyGroupOut(a, response) == "Disk added\n"

getModelArmorTemplate ==
    [name |-> "getModelArmorTemplate", newClient |-> "modelarmor.NewClient",
     endpoint |-> TRUE,
     clientDesc |-> "failed to create client", clientVerb |-> "%v",
     rpc |-> "GetTemplate", rpcDesc |-> "failed to get template", rpcVerb |-> "%v",
     kind |-> "unary", sink |-> "stdout", hasVal |-> TRUE, deferClose |-> TRUE]

getModelArmorTemplateReq(a) ==
    [Name |-> "projects/" \o a.projectID \o "/locations/" \o a.location
              \o "/templates/" \o a.templateID]

getModelArmorTemplateOut(a, response) == "Retrieved template: " \o response.Name \o "\n"

updateFolderFloorSettings ==
    [name |-> "updateFolderFloorSettings", newClient |-> "modelarmor.NewClient",
     endpoint |-> TRUE,
     clientDesc |-> "failed to create client", clientVerb |-> "%v",
     rpc |-> "UpdateFloorSetting", rpcDesc |-> "failed to update floor setting",
     rpcVerb |-> "%v",
     kind |-> "unary", sink |-> "w", hasVal |-> TRUE, deferClose |-> TRUE]

updateFolderFloorSettingsReq(a) ==
    [FloorSetting |->
        [Name |-> "folders/" \o a.folderID \o "/locations/global/floorSetting",
         FilterConfig |-> [RaiSettings |-> [RaiFilters |->
             << [FilterType |-> "HATE_SPEECH", ConfidenceLevel |-> "HIGH"] >>]],
         EnableFloorSettingEnforcement |-> TRUE]]

updateFolderFloorSettingsOut(a, response) ==
    "Updated Floor Setting: " \o FormatV(response) \o "\n"

listModelArmorTemplatesWithFilter ==
    [name |-> "listModelArmorTemplatesWithFilter", newClient |-> "modelarmor.NewClient",
     endpoint |-> TRUE,
     clientDesc |-> "failed to create client", clientVerb |-> "%v",
     rpc |-> "ListTemplates", rpcDesc |-> "failed to iterate templates", rpcVerb |-> "%v",
     \* the loop collects template.Name and prints once after it
     collect |-> "names", perItem |-> FALSE,
     kind |-> "list", sink |-> "w", hasVal |-> TRUE, deferClose |-> TRUE]

listModelArmorTemplatesWithFilterReq(a) ==
    LET parent == "projects/" \o a.projectID \o "/locations/" \o a.locationID
    IN  [Parent |-> parent,
         Filter |-> "name=\"" \o parent \o "/templates/" \o a.templateID \o "\""]

\* templateNames is what the loop collected.
listModelArmorTemplatesWithFilterOut(a, templateNames) ==
    "Templates Found: " \o Join(templateNames, ", ") \o "\n"

createModelArmorTemplateWithMetadata ==
    [name |-> "createModelArmorTemplateWithMetadata", newClient |-> "modelarmor.NewClient",
     endpoint |-> TRUE,
     clientDesc |-> "failed to create client", clientVerb |-> "%v",
     rpc |-> "CreateTemplate", rpcDesc |-> "failed to create template", rpcVerb |-> "%v",
     kind |-> "unary", sink |-> "stdout", hasVal |-> TRUE, deferClose |-> TRUE]

createModelArmorTemplateWithMetadataReq(a) ==
    [Parent |-> "projects/" \o a.projectID \o "/locations/" \o a.locationID,
     TemplateId |-> a.templateID,
     Template |-> [FilterConfig |-> [RaiSettings |-> [RaiFilters |-> RaiFiltersCreate]],
                   TemplateMetadata |-> [IgnorePartialInvocationFailures |-> TRUE,
                                         LogSanitizeOperations |-> TRUE]]]

createModelArmorTemplateWithMetadataOut(a, response) ==
    "Created Model Armor Template: " \o response.Name \o "\n"

updateModelArmorTemplateLabels ==
    [name |-> "updateModelArmorTemplateLabels", newClient |-> "modelarmor.NewClient",
     endpoint |-> TRUE,
     clientDesc |-> "failed to create client", clientVerb |-> "%v",
     rpc |-> "UpdateTemplate", rpcDesc |-> "failed to update template", rpcVerb |-> "%v",
     kind |-> "unary", sink |-> "w", hasVal |-> TRUE, deferClose |-> TRUE]

\* The request as a bug would have it: the mask also names filter_config.
updateModelArmorTemplateLabelsReq_WideMask(a) ==
    [Template |-> [Name |-> "projects/" \o a.projectID \o "/locations/" \o a.locationID
                            \o "/templates/" \o a.templateID,
                   Labels |-> a.labels],
     UpdateMask |-> [Paths |-> << "labels", "filter_config" >>]]

updateModelArmorTemplateLabelsReq(a) ==
    [Template |-> [Name |-> "projects/" \o a.projectID \o "/locations/" \o a.locationID
                            \o "/templates/" \o a.templateID,
                   Labels |-> a.labels],
     UpdateMask |-> [Paths |-> << "labels" >>]]

updateModelArmorTemplateLabelsOut(a, response) ==
    "Updated Model Armor Template Labels: " \o response.Name \o "\n"

screenPDFFile ==
    [name |-> "screenPDFFile", newClient |-> "modelarmor.NewClient",
     endpoint |-> TRUE,
     clientDesc |-> "failed to create client", clientVerb |-> "%v",
     rpc |-> "SanitizeUserPrompt", rpcDesc |-> "failed to sanitize PDF content",
     rpcVerb |-> "%v",
     kind |-> "unary", sink |-> "w", hasVal |-> TRUE, deferClose |-> TRUE]

screenPDFFileReq(a) ==
    [Name |-> "projects/" \o a.projectID \o "/locations/" \o a.locationID
              \o "/templates/" \o a.templateID,
     UserPromptData |-> [ByteItem |-> [ByteDataType |-> "PDF",
                                       ByteData |-> a.pdfContentBase64]]]

screenPDFFileOut(a, response) ==
    "PDF screening sanitization result: " \o FormatV(response) \o "\n"

listModelArmorTemplates ==
    [name |-> "listModelArmorTemplates", newClient |-> "modelarmor.NewClient",
     endpoint |-> TRUE,
     clientDesc |-> "failed to create client", clientVerb |-> "%v",
     rpc |-> "ListTemplates", rpcDesc |-> "failed to iterate templates", rpcVerb |-> "%v",
     \* the loop collects the template and prints a line for it at once
     collect |-> "templates", perItem |-> TRUE,
     kind |-> "list", sink |-> "w", hasVal |-> TRUE, deferClose |-> TRUE]

listModelArmorTemplatesReq(a) ==
    [Parent |-> "projects/" \o a.projectID \o "/locations/" \o a.location]

\* The line the loop prints for one template.
listModelArmorTemplatesOut(a, template) == "Template: " \o template.Name \o "\n"

sanitizeUserPrompt ==
    [name |-> "sanitizeUserPrompt", newClient |-> "modelarmor.NewClient",
     endpoint |-> TRUE,
     clientDesc |-> "failed to create client", clientVerb |-> "%v",
     rpc |-> "SanitizeUserPrompt", rpcDesc |-> "failed to sanitize user prompt",
     rpcVerb |-> "%v",
     kind |-> "unary", sink |-> "stdout", hasVal |-> TRUE, deferClose |-> TRUE]

sanitizeUserPromptReq(a) ==
    [Name |-> "projects/" \o a.projectID \o "/locations/" \o a.locationID
              \o "/templates/" \o a.templateID,
     UserPromptData |-> [Text |-> a.userPrompt]]

sanitizeUserPromptOut(a, response) == "Sanitization Result: " \o FormatV(response) \o "\n"

sanitizeModelResponse ==
    [name |-> "sanitizeModelResponse", newClient |-> "modelarmor.NewClient",
     endpoint |-> TRUE,
     clientDesc |-> "failed to create client", clientVerb |-> "%v",
     rpc |-> "SanitizeModelResponse", rpcDesc |-> "failed to sanitize model response",
     rpcVerb |-> "%v",
     kind |-> "unary", sink |-> "stdout", hasVal |-> TRUE, deferClose |-> TRUE]

sanitizeModelResponseReq(a) ==
    [Name |-> "projects/" \o a.projectID \o "/locations/" \o a.locationID
              \o "/templates/" \o a.templateID,
     ModelResponseData |-> [Text |-> a.modelResponse]]

sanitizeModelResponseOut(a, response) ==
    "Sanitization Result: " \o FormatV(response) \o "\n"

(***************************************************************************)
(* The samples modelarmor_test.go calls that are not among the sources.    *)
(* They follow the uniform pattern of the others; the confirmation is the  *)
(* text their test expects.                                                *)
(***************************************************************************)
createModelArmorTemplate ==
    [name |-> "createModelArmorTemplate", newClient |-> "modelarmor.NewClient",
     endpoint |-> TRUE,
     clientDesc |-> "failed to create client", clientVerb |-> "%v",
     rpc |-> "CreateTemplate", rpcDesc |-> "failed to create template", rpcVerb |-> "%v",
     kind |-> "unary", sink |-> "w", hasVal |-> FALSE, deferClose |-> TRUE]

createModelArmorTemplateReq(a) ==
    [Parent |-> "projects/" \o a.projectID \o "/locations/" \o a.locationID,
     TemplateId |-> a.templateID]

createModelArmorTemplateOut(a, response) == "Created template: " \o response.Name \o "\n"

deleteModelArmorTemplate ==
    [name |-> "deleteModelArmorTemplate", newClient |-> "modelarmor.NewClient",
     endpoint |-> TRUE,
     clientDesc |-> "failed to create client", clientVerb |-> "%v",
     rpc |-> "DeleteTemplate", rpcDesc |-> "failed to delete template", rpcVerb |-> "%v",
     kind |-> "unary", sink |-> "w", hasVal |-> FALSE, deferClose |-> TRUE]

deleteModelArmorTemplateReq(a) ==
    [Name |-> "projects/" \o a.projectID \o "/locations/" \o a.locationID
              \o "/templates/" \o a.templateID]

deleteModelArmorTemplateOut(a, response) ==
    "Successfully deleted Model Armor template: "
        \o "projects/" \o a.projectID \o "/locations/" \o a.locationID
        \o "/templates/" \o a.templateID \o "\n"

updateOrganizationFloorSettings ==
    [name |-> "updateOrganizationFloorSettings", newClient |-> "modelarmor.NewClient",
     endpoint |-> TRUE,
     clientDesc |-> "failed to create client", clientVerb |-> "%v",
     rpc |-> "UpdateFloorSetting", rpcDesc |-> "failed to update floor setting",
     rpcVerb |-> "%v",
     kind |-> "unary", sink |-> "w", hasVal |-> FALSE, deferClose |-> TRUE]

updateOrganizationFloorSettingsReq(a) ==
    [FloorSetting |->
        [Name |-> "organizations/" \o a.organizationID \o "/locations/global/floorSetting",
         EnableFloorSettingEnforcement |-> TRUE]]

updateOrganizationFloorSettingsOut(a, response) ==
    "Updated org floor setting: " \o FormatV(response) \o "\n"

updateProjectFloorSettings ==
    [name |-> "updateProjectFloorSettings", newClient |-> "modelarmor.NewClient",
     endpoint |-> TRUE,
     clientDesc |-> "failed to create client", clientVerb |-> "%v",
     rpc |-> "UpdateFloorSetting", rpcDesc |-> "failed to update floor setting",
     rpcVerb |-> "%v",
     kind |-> "unary", sink |-> "w", hasVal |-> FALSE, deferClose |-> TRUE]

updateProjectFloorSettingsReq(a) ==
    [FloorSetting |->
        [Name |-> "projects/" \o a.projectID \o "/locations/global/floorSetting",
         EnableFloorSettingEnforcement |-> TRUE]]

updateProjectFloorSettingsOut(a, response) ==
    "Updated project floor setting: " \o FormatV(response) \o "\n"

MissingSamples ==
    { createModelArmorTemplate, deleteModelArmorTemplate,
      updateOrganizationFloorSettings, updateProjectFloorSettings }

\* The samples, and the parts of each by name.
Samples ==
    { createParam, createModelArmorTemplateWithLabels, addDiskConsistencyGroup,
      getModelArmorTemplate, updateFolderFloorSettings, listModelArmorTemplatesWithFilter,
      createModelArmorTemplateWithMetadata, updateModelArmorTemplateLabels, screenPDFFile,
      listModelArmorTemplates, sanitizeUserPrompt, sanitizeModelResponse }

SampleNames == { f.name : f \in Samples }

Sample(n) == CHOOSE f \in Samples \cup MissingSamples : f.name = n

Request(n, a) ==
    CASE n = "createParam" -> createParamReq(a)
      [] n = "createModelArmorTemplateWithLabels" -> createModelArmorTemplateWithLabelsReq(a)
      [] n = "addDiskConsistencyGroup" -> addDiskConsistencyGroupReq(a)
      [] n = "getModelArmorTemplate" -> getModelArmorTemplateReq(a)
      [] n = "updateFolderFloorSettings" -> updateFolderFloorSettingsReq(a)
      [] n = "listModelArmorTemplatesWithFilter" -> listModelArmorTemplatesWithFilterReq(a)
      [] n = "createModelArmorTemplateWithMetadata" ->
             createModelArmorTemplateWithMetadataReq(a)
      [] n = "updateModelArmorTemplateLabels" -> updateModelArmorTemplateLabelsReq(a)
      [] n = "screenPDFFile" -> screenPDFFileReq(a)
      [] n = "listModelArmorTemplates" -> listModelArmorTemplatesReq(a)
      [] n = "sanitizeUserPrompt" -> sanitizeUserPromptReq(a)
      [] n = "sanitizeModelResponse" -> sanitizeModelResponseReq(a)
      [] n = "createModelArmorTemplate" -> createModelArmorTemplateReq(a)
      [] n = "deleteModelArmorTemplate" -> deleteModelArmorTemplateReq(a)
      [] n = "updateOrganizationFloorSettings" -> updateOrganizationFloorSettingsReq(a)
      [] n = "updateProjectFloorSettings" -> updateProjectFloorSettingsReq(a)

\* x is the response of a unary call, the collected names of the filtered
\* listing, or the template just yielded to the plain listing.
Output(n, a, x) ==
    CASE n = "createParam" -> createParamOut(a, x)
      [] n = "createModelArmorTemplateWithLabels" ->
             createModelArmorTemplateWithLabelsOut(a, x)
      [] n = "addDiskConsistencyGroup" -> addDiskConsistencyGroupOut(a, x)
      [] n = "getModelArmorTemplate" -> getModelArmorTemplateOut(a, x)
      [] n = "updateFolderFloorSettings" -> updateFolderFloorSettingsOut(a, x)
      [] n = "listModelArmorTemplatesWithFilter" ->
             listModelArmorTemplatesWithFilterOut(a, x)
      [] n = "createModelArmorTemplateWithMetadata" ->
             createModelArmorTemplateWithMetadataOut(a, x)
      [] n = "updateModelArmorTemplateLabels" -> updateModelArmorTemplateLabelsOut(a, x)
      [] n = "screenPDFFile" -> screenPDFFileOut(a, x)
      [] n = "listModelArmorTemplates" -> listModelArmorTemplatesOut(a, x)
      [] n = "sanitizeUserPrompt" -> sanitizeUserPromptOut(a, x)
      [] n = "sanitizeModelResponse" -> sanitizeModelResponseOut(a, x)
      [] n = "createModelArmorTemplate" -> createModelArmorTemplateOut(a, x)
      [] n = "deleteModelArmorTemplate" -> deleteModelArmorTemplateOut(a, x)
      [] n = "updateOrganizationFloorSettings" -> updateOrganizationFloorSettingsOut(a, x)
      [] n = "updateProjectFloorSettings" -> updateProjectFloorSettingsOut(a, x)

(***************************************************************************)
(* State.  Every variable but stdout and t is indexed by the invocation.   *)
(***************************************************************************)
VARIABLES
    fn,         \* the sample an invocation runs ("" before it starts)
    args,       \* its arguments
    pc,         \* its position: idle, start, call, wait, next, print, return, done
    client,     \* its client handle: none, open, closed
    deferred,   \* its stack of deferred calls
    calls,      \* what it asked of the client library, in order
    response,   \* the response of its remote call
    polls,      \* polls its op.Wait has made
    it,         \* its template iterator: buffered items, pages fetched, more pages
    templates,  \* templates / templateNames collected by its loop
    w,          \* the io.Writer it was given
    ret,        \* what it returned: [val, err]
    stdout,     \* the standard output of the process
    t           \* the test binary: the running test and its helpers

svars == << fn, args, pc, client, deferred, calls, response, polls, it, templates,
            w, ret, stdout >>
vars == << fn, args, pc, client, deferred, calls, response, polls, it, templates,
           w, ret, stdout, t >>

NoReq == [none |-> TRUE]
NewIt == [buf |-> <<>>, fetched |-> 0, more |-> TRUE]

\* What the environment may answer with: the resource names the remote puts
\* in a response and the errors the client library hands back.
World == [names |-> RemoteNames, errs |-> SampleErrs]

\* One entry of calls.
\* err is the error the library answered with, ans the value beside it.
Call(op, remote, req, err, ans) ==
    [op |-> op, remote |-> remote, req |-> req, ok |-> err.nil, err |-> err, ans |-> ans]

\* The pages one ListTemplates request may answer with.
PageItems(W) == UNION { [1..k -> W.names] : k \in 0..MaxPageLen }

\* The test binary before any test runs.
TIdle ==
    [name |-> "", pc |-> "idle", location |-> "", projectID |-> "", step |-> 0,
     failed |-> FALSE, fatal |-> "", skipped |-> FALSE, asserted |-> FALSE,
     deferred |-> <<>>,
     helper |-> "", harg |-> "", hclient |-> "none", hdeferred |-> <<>>, log |-> <<>>]

InitSamples ==
    /\ fn = [p \in Procs |-> ""]
    /\ args = [p \in Procs |-> CHOOSE a \in Args : TRUE]
    /\ pc = [p \in Procs |-> "idle"]
    /\ client = [p \in Procs |-> "none"]
    /\ deferred = [p \in Procs |-> <<>>]
    /\ calls = [p \in Procs |-> <<>>]
    /\ response = [p \in Procs |-> NilVal]
    /\ polls = [p \in Procs |-> 0]
    /\ it = [p \in Procs |-> NewIt]
    /\ templates = [p \in Procs |-> <<>>]
    /\ w = [p \in Procs |-> ""]
    /\ ret = [p \in Procs |-> [val |-> NilVal, err |-> NilErr]]
    /\ stdout = ""

\* Write as one buffer shared by all invocations would have it.
Write_Shared(p, f, text) ==
    IF f.sink = "w"
    THEN /\ w' = [w EXCEPT ![1] = @ \o text]
         /\ UNCHANGED stdout
    ELSE /\ stdout' = stdout \o text
         /\ UNCHANGED w

\* fmt.Fprintf(w, ...) for the samples that take a writer, fmt.Printf for
\* the others.
Write(p, f, text) ==
    IF f.sink = "w"
    THEN /\ w' = [w EXCEPT ![p] = @ \o text]
         /\ UNCHANGED stdout
    ELSE /\ stdout' = stdout \o text
         /\ UNCHANGED w

\* ReturnErr as a retry loop would have it: the error is dropped and the
\* failed step is taken again.
ReturnErr_Retry(p, desc, verb, cause) == UNCHANGED << ret, pc >>

\* `return nil, fmt.Errorf(...)` / `return fmt.Errorf(...)`: the result is
\* set, the deferred calls are still to run.
ReturnErr(p, desc, verb, cause) ==
    /\ ret' = [ret EXCEPT ![p] = [val |-> NilVal, err |-> Errorf(desc, verb, cause)]]
    /\ pc' = [pc EXCEPT ![p] = "return"]

\* A caller invokes sample n with arguments a and a writer holding w0.
Invoke(p, n, a, w0) ==
    /\ pc[p] \in {"idle", "done"}
    /\ fn' = [fn EXCEPT ![p] = n]
    /\ args' = [args EXCEPT ![p] = a]
    /\ pc' = [pc EXCEPT ![p] = "start"]
    /\ client' = [client EXCEPT ![p] = "none"]
    /\ deferred' = [deferred EXCEPT ![p] = <<>>]
    /\ calls' = [calls EXCEPT ![p] = <<>>]
    /\ response' = [response EXCEPT ![p] = NilVal]
    /\ polls' = [polls EXCEPT ![p] = 0]
    /\ it' = [it EXCEPT ![p] = NewIt]
    /\ templates' = [templates EXCEPT ![p] = <<>>]
    /\ w' = [w EXCEPT ![p] = w0]
    /\ ret' = [ret EXCEPT ![p] = [val |-> NilVal, err |-> NilErr]]
    /\ UNCHANGED stdout

\* client, err := NewClient(ctx, ...); if err != nil { return ... };
\* defer client.Close()
NewClient(p, W) ==
    /\ pc[p] = "start"
    /\ LET f == Sample(fn[p])
           ctor == IF f.endpoint
                   THEN [WithEndpoint |-> Endpoint(args[p].locationID)]
                   ELSE NoReq
       IN  \/ \E e \in W.errs :
                /\ calls' = [calls EXCEPT ![p] =
                                Append(@, Call(f.newClient, FALSE, ctor, e, NilVal))]
                /\ ret' = [ret EXCEPT ![p] =
                              [val |-> NilVal,
                               err |-> Errorf(f.clientDesc, f.clientVerb, e)]]
                /\ pc' = [pc EXCEPT ![p] = "done"]
                /\ UNCHANGED << client, deferred >>
           \/ /\ calls' = [calls EXCEPT ![p] =
                              Append(@, Call(f.newClient, FALSE, ctor, NilErr, NilVal))]
              /\ client' = [client EXCEPT ![p] = "open"]
              /\ deferred' = [deferred EXCEPT ![p] =
                                 IF f.deferClose THEN << "client.Close" >> ELSE <<>>]
              /\ pc' = [pc EXCEPT ![p] = "call"]
              /\ UNCHANGED ret
    /\ UNCHANGED << fn, args, response, polls, it, templates, w, stdout, t >>

\* The request is built and handed to the client method.  A unary method
\* and AddResourcePolicies make the remote request at once; ListTemplates
\* only returns the iterator.
CallRPC(p, W) ==
    /\ pc[p] = "call"
    /\ LET f == Sample(fn[p])
           req == Request(fn[p], args[p])
       IN  IF f.kind = "list"
           THEN /\ it' = [it EXCEPT ![p] = NewIt]
                /\ templates' = [templates EXCEPT ![p] = <<>>]
                /\ pc' = [pc EXCEPT ![p] = "next"]
                /\ UNCHANGED << calls, response, ret >>
           ELSE /\ \/ \E e \in W.errs :
                        /\ calls' = [calls EXCEPT ![p] =
                                        Append(@, Call(f.rpc, TRUE, req, e, NilVal))]
                        /\ ReturnErr(p, f.rpcDesc, f.rpcVerb, e)
                        /\ UNCHANGED response
                   \/ \E n \in W.names :
                        /\ calls' = [calls EXCEPT ![p] =
                                        Append(@, Call(f.rpc, TRUE, req, NilErr, Msg(n)))]
                        /\ response' = [response EXCEPT ![p] = Msg(n)]
                        /\ pc' = [pc EXCEPT ![p] =
                                     IF f.kind = "lro" THEN "wait" ELSE "print"]
                        /\ UNCHANGED ret
                /\ UNCHANGED << it, templates >>
    /\ UNCHANGED << fn, args, client, deferred, polls, w, stdout, t >>

\* op.Wait(ctx): the operation is polled until it is done; every poll is a
\* remote request and may fail.
OpWait(p, W) ==
    /\ pc[p] = "wait"
    /\ LET f == Sample(fn[p])
       IN  \/ \E e \in W.errs :
                /\ calls' = [calls EXCEPT ![p] =
                                Append(@, Call("op.Wait", TRUE, NoReq, e, NilVal))]
                /\ ReturnErr(p, f.waitDesc, f.waitVerb, e)
                /\ UNCHANGED polls
           \/ /\ calls' = [calls EXCEPT ![p] =
                              Append(@, Call("op.Wait", TRUE, NoReq, NilErr, NilVal))]
              /\ \/ /\ pc' = [pc EXCEPT ![p] = "print"]
                    /\ UNCHANGED polls
                 \/ /\ polls[p] + 1 < MaxPolls
                    /\ polls' = [polls EXCEPT ![p] = @ + 1]
                    /\ UNCHANGED pc
              /\ UNCHANGED ret
    /\ UNCHANGED << fn, args, client, deferred, response, it, templates, w, stdout, t >>

\* Collect as a bug would have it: the new template is put in front.
Collect_InFront(p, f, template) ==
    /\ templates' = [templates EXCEPT ![p] =
                        << IF f.collect = "names" THEN template.Name ELSE template >> \o @]
    /\ IF f.perItem
       THEN Write(p, f, Output(fn[p], args[p], template))
       ELSE UNCHANGED << w, stdout >>

\* The body of the loop for one yielded template.
Collect(p, f, template) ==
    /\ templates' = [templates EXCEPT ![p] =
                        Append(@, IF f.collect = "names" THEN template.Name ELSE template)]
    /\ IF f.perItem
       THEN Write(p, f, Output(fn[p], args[p], template))
       ELSE UNCHANGED << w, stdout >>

\* The end of the listing loop (iterator.Done): the plain listing returns
\* what it collected, the filtered listing goes on to print.
LoopDone(p, f) ==
    IF f.perItem
    THEN /\ ret' = [ret EXCEPT ![p] = [val |-> Slice(templates[p]), err |-> NilErr]]
         /\ pc' = [pc EXCEPT ![p] = "return"]
    ELSE /\ pc' = [pc EXCEPT ![p] = "print"]
         /\ UNCHANGED ret

\* template, err := it.Next() and the loop body.  Next serves from the
\* buffered page, asks the remote for the next page when the buffer is
\* empty and a page is left, and answers iterator.Done otherwise.
IterNext(p, W) ==
    /\ pc[p] = "next"
    /\ LET f == Sample(fn[p])
           req == Request(fn[p], args[p])
       IN  IF it[p].buf # <<>>
           THEN /\ Collect(p, f, Msg(Head(it[p].buf)))
                /\ it' = [it EXCEPT ![p].buf = Tail(@)]
                /\ UNCHANGED << calls, ret, pc >>
           ELSE IF ~it[p].more
           THEN /\ LoopDone(p, f)
                /\ UNCHANGED << calls, it, templates, w, stdout >>
           ELSE \/ \E e \in W.errs :
                     /\ calls' = [calls EXCEPT ![p] =
                                     Append(@, Call(f.rpc, TRUE, req, e, NilVal))]
                     /\ ReturnErr(p, f.rpcDesc, f.rpcVerb, e)
                     /\ UNCHANGED << it, templates, w, stdout >>
                \/ \E pg \in PageItems(W), more \in BOOLEAN :
                     /\ more => it[p].fetched + 1 < MaxPages
                     /\ calls' = [calls EXCEPT ![p] =
                                     Append(@, Call(f.rpc, TRUE, req, NilErr, Slice(pg)))]
                     /\ IF pg = <<>>
                        THEN /\ it' = [it EXCEPT ![p] =
                                         [buf |-> <<>>, fetched |-> @.fetched + 1,
                                          more |-> more]]
                             /\ UNCHANGED << templates, w, stdout >>
                        ELSE /\ it' = [it EXCEPT ![p] =
                                         [buf |-> Tail(pg), fetched |-> @.fetched + 1,
                                          more |-> more]]
                             /\ Collect(p, f, Msg(Head(pg)))
                     /\ UNCHANGED << ret, pc >>
    /\ UNCHANGED << fn, args, client, deferred, response, polls, t >>

\* The confirmation is written and the result set: fmt.Fprintf / fmt.Printf
\* followed by `return response, nil` (`return nil` where there is no value).
Confirm(p) ==
    /\ pc[p] = "print"
    /\ LET f == Sample(fn[p])
           x == IF f.kind = "list" THEN templates[p] ELSE response[p]
           val == IF ~f.hasVal THEN NilVal
                  ELSE IF f.kind = "list" THEN Slice(templates[p])
                  ELSE response[p]
       IN  /\ Write(p, f, Output(fn[p], args[p], x))
           /\ ret' = [ret EXCEPT ![p] = [val |-> val, err |-> NilErr]]
    /\ pc' = [pc EXCEPT ![p] = "return"]
    /\ UNCHANGED << fn, args, client, deferred, calls, response, polls, it, templates, t >>

\* The function returns: its deferred calls run, last registered first.
Return(p) ==
    /\ pc[p] = "return"
    /\ IF deferred[p] # <<>>
       THEN /\ client' = [client EXCEPT ![p] = "closed"]
            /\ calls' = [calls EXCEPT ![p] =
                            Append(@, Call(Head(deferred[p]), FALSE, NoReq, NilErr, NilVal))]
            /\ deferred' = [deferred EXCEPT ![p] = Tail(@)]
       ELSE UNCHANGED << client, calls, deferred >>
    /\ pc' = [pc EXCEPT ![p] = "done"]
    /\ UNCHANGED << fn, args, response, polls, it, templates, w, ret, stdout, t >>

\* A caller outside the tests runs a sample.
Start(p) ==
    /\ t.pc = "idle"
    /\ pc[p] = "idle"
    /\ \E n \in SampleNames, a \in Args : Invoke(p, n, a, "")
    /\ UNCHANGED t

Step(p, W) ==
    \/ NewClient(p, W)
    \/ CallRPC(p, W)
    \/ OpWait(p, W)
    \/ IterNext(p, W)
    \/ Confirm(p)
    \/ Return(p)

Init == InitSamples /\ t = TIdle

\* One invocation.
Next == Start(1) \/ Step(1, World)

Spec == Init /\ [][Next]_vars

\* Two invocations side by side, each started by its own caller with its own
\* project; both talk to the same remote.
ConcArgs(p) ==
    { a \in Args : a.projectID = (IF p = 1 THEN "p1" ELSE "p2") /\ a.folderID = "f1" }

ConcWorld == [names |-> {"r1"}, errs |-> {ErrUnavailable}]

StartConc(p) ==
    /\ t.pc = "idle"
    /\ pc[p] = "idle"
    /\ \E n \in SampleNames, a \in ConcArgs(p) : Invoke(p, n, a, "")
    /\ UNCHANGED t

NextConc == \E p \in Procs : StartConc(p) \/ Step(p, ConcWorld)

SpecConc == Init /\ [][NextConc]_vars

(***************************************************************************)
(* modelarmor_test.go.  A test is a record of what its body fixes: the     *)
(* samples it calls in order, the substring it expects in the buffer and   *)
(* the helper it defers after the sample call returned no error.           *)
(***************************************************************************)
testOrganizationID == "951890214235"
testFolderID == "695279264361"

\* uuid.New().String() of the run.
TestUUID == "u1"

\* os.Getenv("GOLANG_SAMPLES_LOCATION")
TestLocations == {"", "us"}

\* TestCreateModelArmorTemplate as a bug would have it: no cleanup deferred.
TestCreateModelArmorTemplate_NoCleanup ==
    [name |-> "TestCreateModelArmorTemplate",
     samples |-> << "createModelArmorTemplate" >>,
     want |-> "Created template:",
     helper |-> ""]

TestCreateModelArmorTemplate ==
    [name |-> "TestCreateModelArmorTemplate",
     samples |-> << "createModelArmorTemplate" >>,
     want |-> "Created template:",
     helper |-> "testCleanupTemplate"]

TestDeleteModelArmorTemplate ==
    [name |-> "TestDeleteModelArmorTemplate",
     samples |-> << "createModelArmorTemplate", "deleteModelArmorTemplate" >>,
     want |-> "Successfully deleted Model Armor template:",
     helper |-> ""]

TestUpdateFolderFloorSettings ==
    [name |-> "TestUpdateFolderFloorSettings",
     samples |-> << "updateFolderFloorSettings" >>,
     want |-> "Updated folder floor setting: ",
     helper |-> "testDisableFloorSettings"]

TestUpdateOrganizationFloorSettings ==
    [name |-> "TestUpdateOrganizationFloorSettings",
     samples |-> << "updateOrganizationFloorSettings" >>,
     want |-> "Updated org floor setting: ",
     helper |-> "testDisableFloorSettings"]

TestUpdateProjectFloorSettings ==
    [name |-> "TestUpdateProjectFloorSettings",
     samples |-> << "updateProjectFloorSettings" >>,
     want |-> "Updated project floor setting: ",
     helper |-> "testDisableFloorSettings"]

Tests ==
    { TestCreateModelArmorTemplate, TestDeleteModelArmorTemplate,
      TestUpdateFolderFloorSettings, TestUpdateOrganizationFloorSettings,
      TestUpdateProjectFloorSettings }

TestNames == { x.name : x \in Tests }

Test(n) == CHOOSE x \in Tests : x.name = n

\* The arguments a test passes to its samples.
TestArgs(projectID, location) ==
    [ (CHOOSE a \in Args : TRUE) EXCEPT
        !.projectID = projectID, !.locationID = location, !.location = location,
        !.templateID = "test-model-armor-" \o TestUUID,
        !.folderID = testFolderID, !.organizationID = testOrganizationID ]

\* The argument of the deferred helper: templateName / floorSettingName.
HelperArg(n, projectID, location) ==
    CASE n = "TestCreateModelArmorTemplate" ->
             "projects/" \o projectID \o "/locations/" \o location
                 \o "/templates/" \o "test-model-armor-" \o TestUUID
      [] n = "TestUpdateFolderFloorSettings" ->
             "folders/" \o testFolderID \o "/locations/global/floorSetting"
      [] n = "TestUpdateOrganizationFloorSettings" ->
             "organizations/" \o testOrganizationID \o "/locations/global/floorSetting"
      [] n = "TestUpdateProjectFloorSettings" ->
             "projects/" \o projectID \o "/locations/global/floorSetting"
      [] OTHER -> ""

\* One entry of the test's log: a call some function made.
Logged(by, c) ==
    [by |-> by, op |-> c.op, remote |-> c.remote, req |-> c.req, ok |-> c.ok,
     err |-> c.err]

LogAll(by, cs) == [i \in 1..Len(cs) |-> Logged(by, cs[i])]

\* `go test` starts one test.
TestStart ==
    /\ t.pc = "idle"
    /\ pc[1] = "idle"
    /\ \E n \in TestNames, loc \in TestLocations, proj \in ProjectIDs :
         t' = [TIdle EXCEPT !.name = n, !.pc = "setup", !.location = loc,
                            !.projectID = proj, !.step = 1]
    /\ UNCHANGED svars

\* testLocation(t): t.Skip when GOLANG_SAMPLES_LOCATION is not set.
testLocation ==
    /\ t.pc = "setup"
    /\ IF t.location = ""
       THEN t' = [t EXCEPT !.skipped = TRUE, !.pc = "exit"]
       ELSE t' = [t EXCEPT !.pc = "call"]
    /\ UNCHANGED svars

\* The test calls its next sample with its buffer.
TestCall ==
    /\ t.pc = "call"
    /\ Invoke(1, Test(t.name).samples[t.step], TestArgs(t.projectID, t.location), w[1])
    /\ t' = [t EXCEPT !.pc = "wait"]

\* Fatal as t.Error would have it: the test is marked failed and goes on.
Fatal_GoesOn(tst, by) == [tst EXCEPT !.failed = TRUE, !.fatal = by, !.pc = "assert"]

\* t.Fatal / t.Fatalf called by function `by`: the test is marked failed and
\* its goroutine exits, running the deferred calls and nothing else.
Fatal(tst, by) == [tst EXCEPT !.failed = TRUE, !.fatal = by, !.pc = "exit"]

\* if err := sample(...); err != nil { t.Fatal(err) }, and after the last
\* sample call the `defer helper(...)` of the test.
TestCheckErr ==
    /\ t.pc = "wait"
    /\ pc[1] = "done"
    /\ LET x == Test(t.name)
           logged == [t EXCEPT !.log = @ \o LogAll(fn[1], calls[1])]
       IN  IF ~ret[1].err.nil
           THEN t' = Fatal(logged, t.name)
           ELSE IF t.step < Len(x.samples)
           THEN t' = [logged EXCEPT !.step = @ + 1, !.pc = "call"]
           ELSE t' = [logged EXCEPT !.pc = "assert",
                                    !.deferred = IF x.helper = "" THEN <<>>
                                                 ELSE << x.helper >>]
    /\ UNCHANGED svars

\* if got, want := buf.String(), "..."; !strings.Contains(got, want) {
\*     t.Errorf(...) }
TestAssert ==
    /\ t.pc = "assert"
    /\ t' = [t EXCEPT !.asserted = TRUE,
                      !.failed = @ \/ ~Contains(w[1], Test(t.name).want),
                      !.pc = "exit"]
    /\ UNCHANGED svars

\* The test function returns or the goroutine exits (t.Fatal, t.Skip): the
\* deferred helper, if one was registered, runs.
TestReturn ==
    /\ t.pc = "exit"
    /\ IF t.deferred # <<>>
       THEN t' = [t EXCEPT !.helper = Head(t.deferred), !.deferred = Tail(@),
                           !.harg = HelperArg(t.name, t.projectID, t.location),
                           !.pc = "hclient"]
       ELSE t' = [t EXCEPT !.pc = "end"]
    /\ UNCHANGED svars

\* testClient (for testCleanupTemplate) and the modelarmor.NewClient of
\* testDisableFloorSettings: a failure is fatal in the first and returned,
\* to a caller that drops it, in the second; only the second defers Close.
HelperNewClient ==
    /\ t.pc = "hclient"
    /\ LET ev(err) == Logged(t.helper,
                             Call("modelarmor.NewClient", FALSE,
                                  [WithEndpoint |-> Endpoint(t.location)], err, NilVal))
       IN  \/ \E e \in RemoteErrs :
                LET logged == [t EXCEPT !.log = Append(@, ev(e))]
                IN  IF t.helper = "testCleanupTemplate"
                    THEN t' = Fatal(logged, "testClient")
                    ELSE t' = [logged EXCEPT !.pc = "exit"]
           \/ t' = [t EXCEPT !.log = Append(@, ev(NilErr)), !.pc = "hcall",
                             !.hclient = "open",
                             !.hdeferred = IF t.helper = "testDisableFloorSettings"
                                           THEN << "client.Close" >> ELSE <<>>]
    /\ UNCHANGED svars

\* grpcstatus.FromError(err): ok is whether err carries a gRPC status.
FromError(err) == [ok |-> err.grpc, code |-> IF err.grpc THEN err.code ELSE "Unknown"]

\* CleanupFatal with && for ||: an error that is no gRPC status at all is
\* the only one that is fatal.
CleanupFatal_And(err) ==
    /\ ~err.nil
    /\ (~err.grpc /\ (IF err.grpc THEN err.code ELSE "Unknown") # "NotFound")

\* The test of testCleanupTemplate on the error of DeleteTemplate:
\* `!ok || terr.Code() != grpccodes.NotFound` leads to t.Fatalf.
CleanupFatal(err) ==
    /\ ~err.nil
    /\ (~FromError(err).ok \/ FromError(err).code # "NotFound")

\* The request of the helper as a bug would have it: testDisableFloorSettings
\* sends the enforcement flag set.
HelperReq_Enable(helper, harg) ==
    IF helper = "testCleanupTemplate"
    THEN [Name |-> harg]
    ELSE [FloorSetting |-> [Name |-> harg, EnableFloorSettingEnforcement |-> TRUE]]

\* The request of the helper.
HelperReq(helper, harg) ==
    IF helper = "testCleanupTemplate"
    THEN [Name |-> harg]
    ELSE [FloorSetting |-> [Name |-> harg, EnableFloorSettingEnforcement |-> FALSE]]

HelperRPC(helper) ==
    IF helper = "testCleanupTemplate" THEN "DeleteTemplate" ELSE "UpdateFloorSetting"

\* The helper's one request and its return: testCleanupTemplate judges the
\* error and returns with its client as it is; testDisableFloorSettings
\* returns the error wrapped or nil, and its deferred Close runs.
HelperCall ==
    /\ t.pc = "hcall"
    /\ \E err \in RemoteErrs \cup {NilErr} :
         LET ev == Logged(t.helper,
                          Call(HelperRPC(t.helper), TRUE,
                               HelperReq(t.helper, t.harg), err, NilVal))
             closing == t.hdeferred # <<>>
             closeEv == Logged(t.helper, Call("client.Close", FALSE, NoReq, NilErr, NilVal))
             returned == [t EXCEPT
                            !.log = IF closing THEN Append(Append(@, ev), closeEv)
                                    ELSE Append(@, ev),
                            !.hclient = IF closing THEN "closed" ELSE @,
                            !.hdeferred = <<>>,
                            !.pc = "exit"]
         IN  IF t.helper = "testCleanupTemplate" /\ CleanupFatal(err)
             THEN t' = Fatal(returned, "testCleanupTemplate")
             ELSE t' = returned
    /\ UNCHANGED svars

TestStep ==
    \/ TestStart
    \/ testLocation
    \/ TestCall
    \/ TestCheckErr
    \/ TestAssert
    \/ TestReturn
    \/ HelperNewClient
    \/ HelperCall

\* The samples run on their own or under `go test`.
NextTest == Next \/ TestStep

SpecTest == Init /\ [][NextTest]_vars

(***************************************************************************)
(* Properties of the samples.                                              *)
(***************************************************************************)
\* The remote requests among the calls cs.
RemoteCalls(cs) == SelectSeq(cs, LAMBDA c : c.remote)

\* The positions of the failed calls of cs.
FailedAt(cs) == { i \in 1..Len(cs) : ~cs[i].ok }

HasSuffix(s, suf) == Len(suf) <= Len(s) /\ SubSeq(s, Len(s) - Len(suf) + 1, Len(s)) = suf

Returned(p) == pc[p] \in {"return", "done"}

\* C1: when client construction or a remote call of a sample failed, the
\* sample returns a non-nil error whose text is a non-empty description,
\* ": " and the text of the underlying failure, and a nil value beside it.
C1_FailureIsWrappedAndReturned ==
    \A p \in Procs :
        (Returned(p) /\ FailedAt(calls[p]) # {}) =>
            LET c == calls[p][CHOOSE i \in FailedAt(calls[p]) : TRUE]
                e == ret[p].err
            IN  /\ ~e.nil
                /\ ret[p].val = NilVal
                /\ HasSuffix(e.msg, ": " \o c.err.msg)
                /\ Len(e.msg) > Len(": " \o c.err.msg)

\* A sample returned after op.Wait failed, and one after NewClient failed.
C1_Witness ==
    \E p \in Procs :
        /\ pc[p] = "done"
        /\ fn[p] = "addDiskConsistencyGroup"
        /\ \E i \in FailedAt(calls[p]) : calls[p][i].op = "op.Wait"
        /\ ~ret[p].err.nil

\* C2: no retries: once a call of an invocation failed, the invocation makes
\* no further remote request (only the deferred Close follows).
C2_NoRequestAfterFailure ==
    \A p \in Procs :
        \A i \in FailedAt(calls[p]) :
            \A j \in (i + 1)..Len(calls[p]) :
                ~calls[p][j].remote /\ calls[p][j].op = "client.Close"

\* A page request failed after an earlier page request had succeeded, and
\* the listing has returned.
C2_Witness ==
    \E p \in Procs :
        /\ pc[p] = "done"
        /\ Len(RemoteCalls(calls[p])) >= 2
        /\ \E i \in FailedAt(calls[p]) : calls[p][i].remote

\* The samples whose body makes one unary remote call.
UnaryNames ==
    SampleNames \ { "addDiskConsistencyGroup", "listModelArmorTemplates",
                    "listModelArmorTemplatesWithFilter" }

Succeeded(p) == pc[p] = "done" /\ ret[p].err.nil

\* C3 as claimed: a successful invocation of any sample has made exactly one
\* remote request.
C3_Original_ExactlyOneRemoteRequest ==
    \A p \in Procs : Succeeded(p) => Len(RemoteCalls(calls[p])) = 1

\* C3 as amended: a successful invocation builds one request and every
\* remote request that carries a request carries that one; the unary
\* samples make exactly one remote request; addDiskConsistencyGroup makes
\* the AddResourcePolicies request and then at least one poll in op.Wait;
\* a listing makes one ListTemplates request per page, at least one.
C3_OneRequestBuilt ==
    \A p \in Procs :
        Succeeded(p) =>
            LET r == RemoteCalls(calls[p])
                req == Request(fn[p], args[p])
            IN  /\ Len(r) >= 1
                /\ \A i \in 1..Len(r) : r[i].req # NoReq => r[i].req = req
                /\ r[1].req = req
                /\ fn[p] \in UnaryNames => Len(r) = 1
                /\ fn[p] = "addDiskConsistencyGroup" =>
                       /\ Len(r) >= 2
                       /\ r[1].op = "AddResourcePolicies"
                       /\ \A i \in 2..Len(r) : r[i].op = "op.Wait"
                /\ fn[p] \in {"listModelArmorTemplates", "listModelArmorTemplatesWithFilter"} =>
                       \A i \in 1..Len(r) : r[i].op = "ListTemplates"

\* A listing succeeded over two pages, so with two remote requests.
C3_Witness ==
    \E p \in Procs :
        /\ Succeeded(p)
        /\ fn[p] = "listModelArmorTemplatesWithFilter"
        /\ Len(RemoteCalls(calls[p])) = 2

\* C4: a sample whose client was constructed calls Close exactly once, as
\* its last call, on every return path; a sample whose client construction
\* failed never calls Close.  Close is never followed by another call.
C4_CloseExactlyOnceAtReturn ==
    \A p \in Procs :
        LET cs == calls[p]
            closes == { i \in 1..Len(cs) : cs[i].op = "client.Close" }
        IN  /\ closes \subseteq {Len(cs)}
            /\ pc[p] = "done" =>
                   IF cs[1].ok
                   THEN closes = {Len(cs)} /\ client[p] = "closed"
                   ELSE closes = {} /\ client[p] = "none"

\* addDiskConsistencyGroup returned the error of op.Wait and Close was its
\* last call.
C4_Witness ==
    \E p \in Procs :
        /\ pc[p] = "done"
        /\ fn[p] = "addDiskConsistencyGroup"
        /\ \E i \in FailedAt(calls[p]) : calls[p][i].op = "op.Wait"
        /\ calls[p][Len(calls[p])].op = "client.Close"
        /\ client[p] = "closed"

(***************************************************************************)
(* A sample run alone: what it returns and writes, as a function of its    *)
(* arguments and of the answers the client library gave it, in order.      *)
(***************************************************************************)
\* The answers in calls cs: every call but the deferred Close.
Answers(cs) == SelectSeq(cs, LAMBDA c : c.op # "client.Close")

\* The templates of the pages answered so far.
RECURSIVE PageTemplates(_)
PageTemplates(pages) ==
    IF pages = <<>> THEN <<>>
    ELSE (IF pages[1].ok THEN pages[1].ans.items ELSE <<>>) \o PageTemplates(Tail(pages))

\* The lines the plain listing prints for the names ns.
RECURSIVE TemplateLines(_, _)
TemplateLines(a, ns) ==
    IF ns = <<>> THEN ""
    ELSE listModelArmorTemplatesOut(a, Msg(ns[1])) \o TemplateLines(a, Tail(ns))

Alone(n, a, w0, ans) ==
    LET f == Sample(n)
        fail(desc, verb, e, out) ==
            [ret |-> [val |-> NilVal, err |-> Errorf(desc, verb, e)], w |-> out]
        into(text) == IF f.sink = "w" THEN w0 \o text ELSE w0
        last == ans[Len(ans)]
        rest == SubSeq(ans, 2, Len(ans))
        ns == PageTemplates(rest)
    IN  IF ~ans[1].ok THEN fail(f.clientDesc, f.clientVerb, ans[1].err, w0)
        ELSE IF f.kind = "unary"
        THEN IF ~ans[2].ok THEN fail(f.rpcDesc, f.rpcVerb, ans[2].err, w0)
             ELSE [ret |-> [val |-> IF f.hasVal THEN ans[2].ans ELSE NilVal,
                            err |-> NilErr],
                   w |-> into(Output(n, a, ans[2].ans))]
        ELSE IF f.kind = "lro"
        THEN IF ~ans[2].ok THEN fail(f.rpcDesc, f.rpcVerb, ans[2].err, w0)
             ELSE IF ~last.ok THEN fail(f.waitDesc, f.waitVerb, last.err, w0)
             ELSE [ret |-> [val |-> NilVal, err |-> NilErr],
                   w |-> into(Output(n, a, ans[2].ans))]
        ELSE IF f.perItem
        THEN IF ~last.ok
             THEN fail(f.rpcDesc, f.rpcVerb, last.err, into(TemplateLines(a, ns)))
             ELSE [ret |-> [val |-> Slice([i \in 1..Len(ns) |-> Msg(ns[i])]),
                            err |-> NilErr],
                   w |-> into(TemplateLines(a, ns))]
        ELSE IF ~last.ok THEN fail(f.rpcDesc, f.rpcVerb, last.err, w0)
             ELSE [ret |-> [val |-> Slice(ns), err |-> NilErr],
                   w |-> into(Output(n, a, ns))]

\* C9: invocations share no mutable state: whatever the interleaving of two
\* invocations, each sends only the request built from its own arguments,
\* closes its own client, and returns and writes to its own writer exactly
\* what it would have run alone against the same answers.
C9_AsIfAlone ==
    \A p \in Procs :
        /\ \A i \in 1..Len(calls[p]) :
               (calls[p][i].remote /\ calls[p][i].req # NoReq) =>
                   calls[p][i].req = Request(fn[p], args[p])
        /\ pc[p] = "idle" => (w[p] = "" /\ calls[p] = <<>> /\ client[p] = "none")
        /\ pc[p] = "done" =>
               /\ [ret |-> ret[p], w |-> w[p]]
                      = Alone(fn[p], args[p], "", Answers(calls[p]))
               /\ client[p] = IF calls[p][1].ok THEN "closed" ELSE "none"

\* Both invocations ran to the end, each wrote to its writer, and the
\* requests they sent differ.
C9_Witness ==
    /\ \A p \in Procs : pc[p] = "done" /\ ret[p].err.nil /\ w[p] # ""
    /\ fn[1] = "updateModelArmorTemplateLabels"
    /\ fn[2] = "listModelArmorTemplates"
    /\ calls[1][2].req # calls[2][2].req

(***************************************************************************)
(* Properties of the tests and their helpers.                              *)
(***************************************************************************)
\* The entries of the test's log made by function `by` with method op.
LogOf(by, op) == SelectSeq(t.log, LAMBDA c : c.by = by /\ c.op = op)

HelperReturned == t.helper # "" /\ t.pc \in {"exit", "end"}

\* C5 as claimed: when a helper has returned, the client it obtained is
\* closed.
C5_Claim_HelperClientClosed == HelperReturned => t.hclient # "open"

\* C6: testCleanupTemplate makes at most one DeleteTemplate request, exactly
\* one once it has its client and has returned, for the template name it was
\* given; the test is failed fatally by it exactly when the request's error
\* is neither nil nor a gRPC status with code NotFound.
C6_OnlyNotFoundIgnored ==
    LET dels == LogOf("testCleanupTemplate", "DeleteTemplate")
    IN  /\ Len(dels) <= 1
        /\ (HelperReturned /\ t.helper = "testCleanupTemplate" /\ t.hclient = "open")
               => Len(dels) = 1
        /\ (t.fatal = "testCleanupTemplate") => (Len(dels) = 1 /\ t.failed)
        /\ Len(dels) = 1 =>
               /\ dels[1].req = [Name |-> HelperArg(t.name, t.projectID, t.location)]
               /\ (t.fatal = "testCleanupTemplate")
                      <=> ~(dels[1].err.nil
                             \/ (dels[1].err.grpc /\ dels[1].err.code = "NotFound"))

\* The cleanup met NotFound and the test ended without failure.
C6_Witness ==
    LET dels == LogOf("testCleanupTemplate", "DeleteTemplate")
    IN  /\ t.pc = "end"
        /\ Len(dels) = 1
        /\ dels[1].err = ErrNotFound
        /\ ~t.failed

\* C7 as claimed: after updateFolderFloorSettings returned no error, the
\* writer holds text containing "Updated folder floor setting: ".
C7_Claim_FolderConfirmation ==
    \A p \in Procs :
        (fn[p] = "updateFolderFloorSettings" /\ Succeeded(p)) =>
            Contains(w[p], TestUpdateFolderFloorSettings.want)

\* C8 as claimed: the CreateParameterRequest of createParam has the parent
\* projects/<projectID>/locations/global, the given parameter ID and a
\* parameter whose format is UNFORMATTED.
C8_Claim_UnformattedRequest ==
    \A p \in Procs :
        fn[p] = "createParam" =>
            \A i \in 1..Len(calls[p]) :
                calls[p][i].op = "CreateParameter" =>
                    /\ calls[p][i].req.Parent
                           = "projects/" \o args[p].projectID \o "/locations/global"
                    /\ calls[p][i].req.ParameterId = args[p].parameterID
                    /\ calls[p][i].req.Parameter.Format = "UNFORMATTED"

\* The calls of the test's log that its samples made and that failed.
SampleFailures ==
    SelectSeq(t.log, LAMBDA c : c.by \notin {"testCleanupTemplate", "testDisableFloorSettings"}
                                /\ ~c.ok)

\* C10: the substring assertion of a test is evaluated only when every
\* sample call of the test has returned a nil error; when a sample call
\* returns an error the test fails fatally there: the assertion is not
\* evaluated, no further sample is called, no helper is deferred or run.
C10_AssertOnlyAfterSuccess ==
    /\ t.pc = "assert" \/ t.asserted =>
           /\ SampleFailures = <<>>
           /\ ret[1].err.nil
           /\ pc[1] = "done"
           /\ t.step = Len(Test(t.name).samples)
           /\ fn[1] = Test(t.name).samples[t.step]
           /\ t.fatal # t.name
    /\ (t.name # "" /\ t.pc \in {"exit", "end"} /\ ~t.skipped /\ SampleFailures # <<>>) =>
           /\ t.fatal = t.name
           /\ t.failed
    /\ (t.name # "" /\ t.fatal = t.name) =>
           /\ ~t.asserted
           /\ t.pc \in {"exit", "end"}
           /\ t.deferred = <<>>
           /\ t.helper = ""
           /\ fn[1] = Test(t.name).samples[t.step]
           /\ ~ret[1].err.nil
           /\ t.log = LogAll(fn[1], calls[1])
                  \/ (t.step = 2 /\ Len(t.log) > Len(calls[1])
                      /\ SubSeq(t.log, Len(t.log) - Len(calls[1]) + 1, Len(t.log))
                             = LogAll(fn[1], calls[1]))

\* TestDeleteModelArmorTemplate ended after its second sample call failed.
C10_Witness ==
    /\ t.name = "TestDeleteModelArmorTemplate"
    /\ t.pc = "end"
    /\ t.step = 2
    /\ t.fatal = t.name
    /\ ~t.asserted

(***************************************************************************)
(* Properties of the listings and of the order of output.                  *)
(***************************************************************************)
ListingNames == {"listModelArmorTemplates", "listModelArmorTemplatesWithFilter"}

\* The iteration of invocation p ended with an error of it.Next.
IterationFailed(p) ==
    /\ fn[p] \in ListingNames
    /\ Returned(p)
    /\ \E i \in FailedAt(calls[p]) : calls[p][i].op = "ListTemplates"

\* C11 as claimed: when it.Next returns an error other than Done, after any
\* number of templates, either listing returns a nil result with a non-nil
\* error and its writer has received nothing.
C11_Claim_NoOutputOnIterationError ==
    \A p \in Procs :
        IterationFailed(p) =>
            /\ ret[p].val = NilVal
            /\ ~ret[p].err.nil
            /\ w[p] = ""

\* C12 as claimed: a sample writes only after all its remote steps returned
\* without error, and a sample that returns an error has written nothing.
C12_Claim_OutputOnlyAfterSuccess ==
    \A p \in Procs :
        /\ (w[p] # "" \/ stdout # "") =>
               (fn[p] # "" => (Returned(p) /\ ret[p].err.nil /\ FailedAt(calls[p]) = {}))
        /\ (fn[p] # "" /\ Returned(p) /\ ~ret[p].err.nil) => (w[p] = "" /\ stdout = "")

\* The names of the templates the pages of invocation p yielded, in order.
Yielded(p) == PageTemplates(SubSeq(Answers(calls[p]), 2, Len(Answers(calls[p]))))

\* "Template: <name>\n" for ns[1..k], built from the left.
RECURSIVE LinesUpTo(_, _)
LinesUpTo(ns, k) ==
    IF k = 0 THEN "" ELSE LinesUpTo(ns, k - 1) \o "Template: " \o ns[k] \o "\n"

\* C13: when the iteration ends with Done, listModelArmorTemplates returns
\* the templates the iterator yielded, in that order, none dropped or
\* repeated, with a nil error, and has written one line "Template: <name>"
\* per template in the same order; when nothing was yielded the list is nil
\* and nothing is written.
C13_ListingReturnsWhatWasYielded ==
    \A p \in Procs :
        (fn[p] = "listModelArmorTemplates" /\ Succeeded(p)) =>
            LET ns == Yielded(p)
                got == ret[p].val.items
            IN  /\ Len(got) = Len(ns)
                /\ \A i \in 1..Len(ns) : got[i] = Msg(ns[i])
                /\ w[p] = LinesUpTo(ns, Len(ns))
                /\ ns = <<>> => (ret[p].val = NilVal /\ w[p] = "")
                /\ ns # <<>> => ~ret[p].val.nil

\* The listing returned two different templates that came in two pages.
C13_Witness ==
    \E p \in Procs :
        /\ fn[p] = "listModelArmorTemplates"
        /\ Succeeded(p)
        /\ Len(ret[p].val.items) >= 2
        /\ ret[p].val.items[1] # ret[p].val.items[2]
        /\ Len(RemoteCalls(calls[p])) >= 2

\* ns[1], ", ", ns[2], ... built from the left.
RECURSIVE CommaList(_, _)
CommaList(ns, k) ==
    IF k = 0 THEN ""
    ELSE IF k = 1 THEN ns[1]
    ELSE CommaList(ns, k - 1) \o ", " \o ns[k]

\* C14: a successful listModelArmorTemplatesWithFilter has sent, in every
\* page request, the parent projects/<projectID>/locations/<locationID> and
\* the filter name="<parent>/templates/<templateID>"; it returns the yielded
\* names in order and has written exactly the one line "Templates Found: "
\* with the names joined by ", ", also when there are none.
C14_FilteredListing ==
    \A p \in Procs :
        (fn[p] = "listModelArmorTemplatesWithFilter" /\ Succeeded(p)) =>
            LET ns == Yielded(p)
                r == RemoteCalls(calls[p])
                parent == "projects/" \o args[p].projectID \o "/locations/"
                              \o args[p].locationID
            IN  /\ \A i \in 1..Len(r) :
                       /\ r[i].req.Parent = parent
                       /\ r[i].req.Filter
                              = "name=\"" \o parent \o "/templates/" \o args[p].templateID
                                    \o "\""
                /\ ret[p].val.items = ns
                /\ w[p] = "Templates Found: " \o CommaList(ns, Len(ns)) \o "\n"

\* The filtered listing found two templates.
C14_Witness ==
    \E p \in Procs :
        /\ fn[p] = "listModelArmorTemplatesWithFilter"
        /\ Succeeded(p)
        /\ Len(ret[p].val.items) = 2

\* C15: the one request of updateModelArmorTemplateLabels has the update
\* mask ["labels"] and a template with the full resource name and the
\* caller's labels and no other field.
C15_OnlyLabelsUpdated ==
    \A p \in Procs :
        fn[p] = "updateModelArmorTemplateLabels" =>
            \A i \in 1..Len(calls[p]) :
                calls[p][i].remote =>
                    /\ calls[p][i].op = "UpdateTemplate"
                    /\ DOMAIN calls[p][i].req = {"Template", "UpdateMask"}
                    /\ calls[p][i].req.UpdateMask = [Paths |-> << "labels" >>]
                    /\ DOMAIN calls[p][i].req.Template = {"Name", "Labels"}
                    /\ calls[p][i].req.Template.Name
                           = "projects/" \o args[p].projectID \o "/locations/"
                                 \o args[p].locationID \o "/templates/"
                                 \o args[p].templateID
                    /\ calls[p][i].req.Template.Labels = args[p].labels

\* The update was sent and succeeded.
C15_Witness ==
    \E p \in Procs :
        /\ fn[p] = "updateModelArmorTemplateLabels"
        /\ Succeeded(p)
        /\ Len(RemoteCalls(calls[p])) = 1

FloorTests ==
    {"TestUpdateFolderFloorSettings", "TestUpdateOrganizationFloorSettings",
     "TestUpdateProjectFloorSettings"}

TestEnded == t.pc = "end"

\* The places in the test's log of the UpdateFloorSetting requests for the
\* test's floor setting that carry the given enforcement flag.
FloorUpdates(flag) ==
    { i \in 1..Len(t.log) :
        /\ t.log[i].op = "UpdateFloorSetting"
        /\ t.log[i].remote
        /\ t.log[i].req.FloorSetting.Name = HelperArg(t.name, t.projectID, t.location)
        /\ t.log[i].req.FloorSetting.EnableFloorSettingEnforcement = flag }

Enabled == { i \in FloorUpdates(TRUE) : t.log[i].ok }

Disabling == FloorUpdates(FALSE)

\* A client construction by one of the given functions failed.
ClientFailed(by) ==
    \E i \in 1..Len(t.log) :
        /\ t.log[i].by \in by
        /\ t.log[i].op = "modelarmor.NewClient"
        /\ ~t.log[i].ok

\* C16 as claimed: in the three floor-setting tests a disabling request for
\* the same floor setting is issued exactly once, after the enabling update
\* succeeded and before the test ends, whatever the assertion says; none
\* when the enabling update failed.
C16_Claim_DisabledExactlyOnce ==
    t.name \in FloorTests =>
        /\ \A i \in Disabling : \E j \in Enabled : j < i
        /\ (TestEnded /\ Enabled # {}) => Cardinality(Disabling) = 1
        /\ (TestEnded /\ Enabled = {}) => Disabling = {}

\* C16: in the three floor-setting tests a disabling request for the same
\* floor setting is issued at most once and only after the enabling update
\* succeeded; when the test has ended after a successful enabling update it
\* was issued exactly once, whatever the assertion says, unless
\* testDisableFloorSettings could not construct its client, and then not at
\* all; none when the enabling update failed.
C16_DisabledOnceUnlessNoClient ==
    t.name \in FloorTests =>
        /\ Cardinality(Disabling) <= 1
        /\ \A i \in Disabling : \E j \in Enabled : j < i
        /\ (TestEnded /\ Enabled # {}) =>
               IF ClientFailed({"testDisableFloorSettings"})
               THEN Disabling = {}
               ELSE Cardinality(Disabling) = 1
        /\ (TestEnded /\ Enabled = {}) => Disabling = {}

\* The folder test ended with its assertion failed and the floor setting
\* disabled once.
C16_Witness ==
    /\ t.name = "TestUpdateFolderFloorSettings"
    /\ TestEnded
    /\ t.asserted
    /\ t.failed
    /\ Enabled # {}
    /\ Cardinality(Disabling) = 1

TemplateTests == {"TestCreateModelArmorTemplate", "TestDeleteModelArmorTemplate"}

\* The create call of the test succeeded.
Created ==
    \E i \in 1..Len(t.log) :
        t.log[i].op = "CreateTemplate" /\ t.log[i].remote /\ t.log[i].ok

\* The places in the log of the delete requests for the test's template.
DeleteRequests ==
    { i \in 1..Len(t.log) :
        /\ t.log[i].op = "DeleteTemplate"
        /\ t.log[i].remote
        /\ t.log[i].req
               = [Name |-> "projects/" \o t.projectID \o "/locations/" \o t.location
                               \o "/templates/test-model-armor-" \o TestUUID] }

\* C17 as claimed: when TestCreateModelArmorTemplate or
\* TestDeleteModelArmorTemplate has ended and its create call succeeded, a
\* delete request for that template has been issued.
C17_Claim_DeleteAlwaysIssued ==
    (t.name \in TemplateTests /\ TestEnded /\ Created) => DeleteRequests # {}

\* C17: when TestCreateModelArmorTemplate or TestDeleteModelArmorTemplate has
\* ended and its create call succeeded, one delete request for that template
\* has been issued, on passing and failing paths alike, unless the client
\* that was to send it (of testCleanupTemplate, of deleteModelArmorTemplate)
\* could not be constructed, and then none; no delete request is issued
\* before the create call succeeded.
C17_DeleteIssuedUnlessNoClient ==
    t.name \in TemplateTests =>
        /\ DeleteRequests # {} => Created
        /\ (TestEnded /\ Created) =>
               IF ClientFailed({"testCleanupTemplate", "deleteModelArmorTemplate"})
               THEN DeleteRequests = {}
               ELSE Cardinality(DeleteRequests) = 1

\* TestDeleteModelArmorTemplate ended by t.Fatal on the error of a delete
\* request that was sent.
C17_Witness ==
    /\ t.name = "TestDeleteModelArmorTemplate"
    /\ TestEnded
    /\ t.fatal = "TestDeleteModelArmorTemplate"
    /\ Created
    /\ \E i \in DeleteRequests : ~t.log[i].ok

====
